---- MODULE Spec2Model ----
(***************************************************************************)
(* A model of the Shrink Ray daily puzzle (src/src/App.jsx): the word      *)
(* normalizer, the feedback engine, the stored-state loader, and the App   *)
(* component's state, event handlers and effects.                          *)
(*                                                                         *)
(* JavaScript strings are sequences of one-character strings.  Values that *)
(* come out of JSON.parse are tagged records (Str, Num, Bool, Arr, Undef,  *)
(* Null, and the stored object), so that the loader's typeof / isArray /   *)
(* isInteger / truthiness tests are modelled by what they do.              *)
(***************************************************************************)
EXTENDS Integers, Sequences, FiniteSets, TLC

VARIABLES
    clock,              \* the local calendar day the machine's clock shows
    storage,            \* localStorage's slot STORAGE_KEY
    currentDate,        \* useState: currentDate
    guesses,            \* useState: guesses (the solved words)
    attemptsByStep,     \* useState: attemptsByStep
    totalAttemptsUsed,  \* useState: totalAttemptsUsed
    isLockedOut,        \* useState: isLockedOut
    inputValue,         \* useState: inputValue
    lastToast,          \* the message the latest key event called showToast with
    effects,            \* the effects of the latest commit that have not run yet
    queued,             \* the state updates an effect has queued for the next render
    lastEvent,          \* history: the latest event that was not ignored
    wrongCount,         \* history: wrong guesses submitted under the active date
    probe               \* the pure-function harness: inputs, and the result once applied

vars == <<clock, storage, currentDate, guesses, attemptsByStep, totalAttemptsUsed,
          isLockedOut, inputValue, lastToast, effects, queued, lastEvent, wrongCount,
          probe>>

session == <<guesses, attemptsByStep, totalAttemptsUsed, isLockedOut>>

----------------------------------------------------------------------------
(* Bounds of the model *)

\* the clock runs over the days 1..MaxDay of one month
MaxDay == 3

\* the feedback harness scores all word pairs of equal length 1..MaxWordLen
MaxWordLen == 3

----------------------------------------------------------------------------
(* Program constants *)

TARGET_LENGTHS == <<6, 5, 4, 3>>

MAX_RETRIES == 3

UpperCase == <<"A","B","C","D","E","F","G","H","I","J","K","L","M",
               "N","O","P","Q","R","S","T","U","V","W","X","Y","Z">>

LowerCase == <<"a","b","c","d","e","f","g","h","i","j","k","l","m",
               "n","o","p","q","r","s","t","u","v","w","x","y","z">>

WhiteSpace == {" "}

----------------------------------------------------------------------------
(* JSON values *)

Undef == [t |-> "undefined"]
Null == [t |-> "null"]
Str(s) == [t |-> "string", v |-> s]
Num(n) == [t |-> "number", v |-> n, whole |-> TRUE]
\* the number n + 1/2
Frac(n) == [t |-> "number", v |-> n, whole |-> FALSE]
Bool(b) == [t |-> "boolean", v |-> b]
Arr(a) == [t |-> "array", v |-> a]

\* a[i] of JavaScript, i counted from 0: undefined past the end
ElementAt(a, i) == IF i + 1 <= Len(a.v) THEN a.v[i + 1] ELSE Undef

IsArray(x) == x.t = "array"

IsInteger(x) == x.t = "number" /\ x.whole

\* Boolean(x)
Truthy(x) ==
    CASE x.t = "boolean" -> x.v
      [] x.t = "number" -> ~(x.whole /\ x.v = 0)
      [] x.t = "string" -> x.v # <<>>
      [] x.t \in {"undefined", "null"} -> FALSE
      [] OTHER -> TRUE

\* x === the string s
IsTheString(x, s) == x.t = "string" /\ x.v = s

----------------------------------------------------------------------------
(* normalizeWord *)

ToUpperChar(c) ==
    IF \E i \in 1..Len(LowerCase) : LowerCase[i] = c
    THEN UpperCase[CHOOSE i \in 1..Len(LowerCase) : LowerCase[i] = c]
    ELSE c

ToUpperCase(s) == [i \in 1..Len(s) |-> ToUpperChar(s[i])]

RECURSIVE TrimStart(_)
TrimStart(s) ==
    IF s # <<>> /\ Head(s) \in WhiteSpace THEN TrimStart(Tail(s)) ELSE s

RECURSIVE TrimEnd(_)
TrimEnd(s) ==
    IF s # <<>> /\ s[Len(s)] \in WhiteSpace
    THEN TrimEnd(SubSeq(s, 1, Len(s) - 1))
    ELSE s

Trim(s) == TrimEnd(TrimStart(s))

\* /^[A-Z]+$/
IsUpperAlpha(s) ==
    /\ s # <<>>
    /\ \A i \in 1..Len(s) : \E j \in 1..Len(UpperCase) : UpperCase[j] = s[i]

\* '' is <<>>; an expectedLength of 0 (or none) is falsy and checks no length
normalizeWord(value, expectedLength) ==
    IF value.t # "string" THEN <<>>
    ELSE LET normalized == ToUpperCase(Trim(value.v))
         IN IF ~IsUpperAlpha(normalized) THEN <<>>
            ELSE IF expectedLength # 0 /\ Len(normalized) # expectedLength THEN <<>>
            ELSE normalized

----------------------------------------------------------------------------
(* buildFeedback *)

\* s[i] of JavaScript, i counted from 1 here: "undefined" past the end
CharAt(s, i) == IF i <= Len(s) THEN s[i] ELSE "undefined"

\* the first pass: the positions that match are correct
FirstPass(guess, target) ==
    [i \in 1..Len(target) |->
        IF CharAt(guess, i) = target[i] THEN "correct" ELSE "absent"]

\* remaining.get(letter) ?? 0 after the first pass
RemainingAfterFirstPass(guess, target, letter) ==
    Cardinality({i \in 1..Len(target) :
                    CharAt(guess, i) # target[i] /\ target[i] = letter})

\* the second pass from position i on; used[l] is how often the count of l was decremented
RECURSIVE SecondPass(_, _, _, _, _)
SecondPass(guess, target, states, used, i) ==
    IF i > Len(target) THEN states
    ELSE IF states[i] = "correct" THEN SecondPass(guess, target, states, used, i + 1)
    ELSE LET letter == CharAt(guess, i)
             already == IF letter \in DOMAIN used THEN used[letter] ELSE 0
             count == RemainingAfterFirstPass(guess, target, letter) - already
         IN IF count > 0
            THEN SecondPass(guess, target, [states EXCEPT ![i] = "present"],
                            [l \in DOMAIN used \cup {letter} |->
                                IF l = letter THEN already + 1 ELSE used[l]],
                            i + 1)
            ELSE SecondPass(guess, target, states, used, i + 1)

\* a variant whose second pass does not decrement the remaining count
buildFeedback_NoDecrement(guess, target) ==
    [i \in 1..Len(target) |->
        IF CharAt(guess, i) = target[i] THEN "correct"
        ELSE IF RemainingAfterFirstPass(guess, target, CharAt(guess, i)) > 0
             THEN "present"
             ELSE "absent"]

buildFeedback(guess, target) ==
    SecondPass(guess, target, FirstPass(guess, target), <<>>, 1)

----------------------------------------------------------------------------
(* The puzzle catalog *)

\* getLocalDateString: year-month-day, month and day padded to two digits.  The
\* clock stays within January 2026.
Digit(n) == <<"0","1","2","3","4","5","6","7","8","9">>[n + 1]

getLocalDateString(day) ==
    <<"2","0","2","6","-","0","1","-", Digit(day \div 10), Digit(day % 10)>>

\* puzzles.json as normalizePuzzle leaves it: a puzzle for the 1st and the 2nd,
\* none for any later day
DAILY_PUZZLES ==
    { [date |-> getLocalDateString(1),
       startWord |-> <<"P","L","A","N","E","T","S">>,
       targetWords |-> << <<"P","L","A","N","E","T">>, <<"P","L","A","N","E">>,
                          <<"P","L","A","N">>, <<"P","A","N">> >>],
      [date |-> getLocalDateString(2),
       startWord |-> <<"S","T","A","R","I","N","G">>,
       targetWords |-> << <<"S","T","R","I","N","G">>, <<"S","T","I","N","G">>,
                          <<"S","I","N","G">>, <<"S","I","N">> >>] }

\* the null of DAILY_PUZZLES.get(date) ?? null
NoPuzzle == [date |-> <<>>, startWord |-> <<>>, targetWords |-> <<>>]

\* DAILY_PUZZLES.get(dateString) ?? null
PuzzleFor(dateString) ==
    IF \E p \in DAILY_PUZZLES : p.date = dateString
    THEN CHOOSE p \in DAILY_PUZZLES : p.date = dateString
    ELSE NoPuzzle

----------------------------------------------------------------------------
(* The stored state *)

createEmptyAttemptsByStep == [i \in 1..Len(TARGET_LENGTHS) |-> <<>>]

createEmptyState ==
    [guesses |-> <<>>,
     attemptsByStep |-> createEmptyAttemptsByStep,
     totalAttempts |-> 0,
     lockedOut |-> FALSE]

\* localStorage.getItem gives null
NoItem == [t |-> "absent"]
\* the slot holds a text that JSON.parse turns into json
Item(json) == [t |-> "item", json |-> json]
\* the slot holds a text that JSON.parse throws on
SyntaxError == [t |-> "syntax-error"]

\* parsed.name: undefined unless parsed is an object with that field
Field(parsed, name) == IF parsed.t = "object" THEN parsed[name] ELSE Undef

Max(a, b) == IF a >= b THEN a ELSE b
Min(a, b) == IF a <= b THEN a ELSE b

\* a variant that passes over a stored guess that fails and goes on with the next
RECURSIVE ValidGuesses_SkipsFailures(_, _, _, _)
ValidGuesses_SkipsFailures(storedGuesses, puzzle, step, validGuesses) ==
    IF step >= Len(TARGET_LENGTHS) THEN validGuesses
    ELSE LET guess == normalizeWord(ElementAt(storedGuesses, step),
                                    TARGET_LENGTHS[step + 1])
         IN IF guess = <<>> \/ guess # puzzle.targetWords[step + 1]
            THEN ValidGuesses_SkipsFailures(storedGuesses, puzzle, step + 1, validGuesses)
            ELSE ValidGuesses_SkipsFailures(storedGuesses, puzzle, step + 1,
                                            Append(validGuesses, guess))

\* the loop over the stored guesses, from step (counted from 0) on
RECURSIVE ValidGuesses(_, _, _, _)
ValidGuesses(storedGuesses, puzzle, step, validGuesses) ==
    IF step >= Len(TARGET_LENGTHS) THEN validGuesses
    ELSE LET guess == normalizeWord(ElementAt(storedGuesses, step),
                                    TARGET_LENGTHS[step + 1])
         IN IF guess = <<>> \/ guess # puzzle.targetWords[step + 1]
            THEN validGuesses
            ELSE ValidGuesses(storedGuesses, puzzle, step + 1,
                              Append(validGuesses, guess))

\* a variant that keeps a stored attempt that is the target of its step
RECURSIVE LoadAttempts_KeepsTarget(_, _, _, _, _)
LoadAttempts_KeepsTarget(rowAttempts, k, step, puzzle, acc) ==
    IF k > Len(rowAttempts) THEN acc
    ELSE IF acc.totalAttempts >= MAX_RETRIES THEN [acc EXCEPT !.stopped = TRUE]
    ELSE LET attemptWord == normalizeWord(rowAttempts[k], TARGET_LENGTHS[step + 1])
             targetWord == puzzle.targetWords[step + 1]
         IN IF attemptWord = <<>>
            THEN LoadAttempts_KeepsTarget(rowAttempts, k + 1, step, puzzle, acc)
            ELSE LoadAttempts_KeepsTarget(rowAttempts, k + 1, step, puzzle,
                    [acc EXCEPT
                        !.attemptsByStep[step + 1] =
                            Append(@, [guess |-> attemptWord,
                                       feedback |-> buildFeedback(attemptWord, targetWord)]),
                        !.totalAttempts = @ + 1])

\* the loop over one list of stored attempts of a step (counted from 0), from its
\* k-th element on.  acc is [attemptsByStep, totalAttempts, stopped]; stopped is
\* the break out of the loops once MAX_RETRIES attempts are rebuilt.
RECURSIVE LoadAttempts(_, _, _, _, _)
LoadAttempts(rowAttempts, k, step, puzzle, acc) ==
    IF k > Len(rowAttempts) THEN acc
    ELSE IF acc.totalAttempts >= MAX_RETRIES THEN [acc EXCEPT !.stopped = TRUE]
    ELSE LET attemptWord == normalizeWord(rowAttempts[k], TARGET_LENGTHS[step + 1])
             targetWord == puzzle.targetWords[step + 1]
         IN IF attemptWord = <<>> \/ attemptWord = targetWord
            THEN LoadAttempts(rowAttempts, k + 1, step, puzzle, acc)
            ELSE LoadAttempts(rowAttempts, k + 1, step, puzzle,
                    [acc EXCEPT
                        !.attemptsByStep[step + 1] =
                            Append(@, [guess |-> attemptWord,
                                       feedback |-> buildFeedback(attemptWord, targetWord)]),
                        !.totalAttempts = @ + 1])

\* the outer loop over the steps of the stored attemptsByStep
RECURSIVE LoadAttemptsByStep(_, _, _, _)
LoadAttemptsByStep(rawAttemptsByStep, step, puzzle, acc) ==
    IF step >= Len(TARGET_LENGTHS) \/ acc.stopped THEN acc
    ELSE LET rowAttempts == ElementAt(rawAttemptsByStep, step)
         IN IF ~IsArray(rowAttempts)
            THEN LoadAttemptsByStep(rawAttemptsByStep, step + 1, puzzle, acc)
            ELSE LoadAttemptsByStep(rawAttemptsByStep, step + 1, puzzle,
                    LoadAttempts(rowAttempts.v, 1, step, puzzle, acc))

\* the attempts the loader rebuilds, from the current or the legacy shape
RebuiltAttempts(parsed, puzzle) ==
    LET none == [attemptsByStep |-> createEmptyAttemptsByStep,
                 totalAttempts |-> 0, stopped |-> FALSE]
        activeStep == Field(parsed, "activeStep")
    IN IF IsArray(Field(parsed, "attemptsByStep"))
       THEN LoadAttemptsByStep(Field(parsed, "attemptsByStep"), 0, puzzle, none)
       ELSE IF /\ IsArray(Field(parsed, "attempts"))
               /\ IsInteger(activeStep)
               /\ activeStep.v >= 0
               /\ activeStep.v < Len(TARGET_LENGTHS)
       THEN LoadAttempts(Field(parsed, "attempts").v, 1, activeStep.v, puzzle, none)
       ELSE none

\* a variant that does not compare the start word
RecordMatches_DateOnly(parsed, dateString, puzzle) ==
    /\ Truthy(parsed)
    /\ IsTheString(Field(parsed, "date"), dateString)
    /\ IsArray(Field(parsed, "guesses"))

\* the stored record is one of this date and this puzzle, with a list of guesses
RecordMatches(parsed, dateString, puzzle) ==
    /\ Truthy(parsed)
    /\ IsTheString(Field(parsed, "date"), dateString)
    /\ IsTheString(Field(parsed, "startWord"), puzzle.startWord)
    /\ IsArray(Field(parsed, "guesses"))

\* a variant that takes the stored counter in place of the rebuilt count
ReconcileTotal_TrustsStored(rebuiltTotal, stored) ==
    IF IsInteger(stored)
    THEN Min(MAX_RETRIES, stored.v)
    ELSE rebuiltTotal

\* a variant that takes the smaller of the two counts
ReconcileTotal_Min(rebuiltTotal, stored) ==
    IF IsInteger(stored)
    THEN Min(MAX_RETRIES, Min(rebuiltTotal, stored.v))
    ELSE rebuiltTotal

\* the rebuilt count reconciled with the stored counter
ReconcileTotal(rebuiltTotal, stored) ==
    IF IsInteger(stored)
    THEN Min(MAX_RETRIES, Max(rebuiltTotal, stored.v))
    ELSE rebuiltTotal

\* a variant that keeps a stored lockout flag on a solved puzzle
RestoredLockedOut_IgnoresSolved(parsed, solved, totalAttempts) ==
    \/ Truthy(Field(parsed, "lockedOut"))
    \/ Truthy(Field(parsed, "failed"))
    \/ totalAttempts >= MAX_RETRIES

\* a variant that does not read the legacy failed flag
RestoredLockedOut_IgnoresFailed(parsed, solved, totalAttempts) ==
    IF solved THEN FALSE
    ELSE \/ Truthy(Field(parsed, "lockedOut"))
         \/ totalAttempts >= MAX_RETRIES

\* the lockout recomputed on restore: solved ? false : Boolean(lockedOut) || Boolean(failed) || total >= MAX_RETRIES
RestoredLockedOut(parsed, solved, totalAttempts) ==
    IF solved THEN FALSE
    ELSE \/ Truthy(Field(parsed, "lockedOut"))
         \/ Truthy(Field(parsed, "failed"))
         \/ totalAttempts >= MAX_RETRIES

\* loadStoredState, raw being what localStorage.getItem(STORAGE_KEY) gives
loadStoredState(dateString, puzzle, raw) ==
    IF raw.t = "absent" THEN createEmptyState
    ELSE IF raw.json.t = "syntax-error" THEN createEmptyState
    ELSE LET parsed == raw.json IN
    IF ~RecordMatches(parsed, dateString, puzzle)
    THEN createEmptyState
    ELSE LET validGuesses == ValidGuesses(Field(parsed, "guesses"), puzzle, 0, <<>>)
             rebuilt == RebuiltAttempts(parsed, puzzle)
             totalAttempts ==
                 ReconcileTotal(rebuilt.totalAttempts, Field(parsed, "totalAttempts"))
             solved == Len(validGuesses) >= Len(TARGET_LENGTHS)
             lockedOut == RestoredLockedOut(parsed, solved, totalAttempts)
         IN [guesses |-> validGuesses,
             attemptsByStep |-> rebuilt.attemptsByStep,
             totalAttempts |-> Min(MAX_RETRIES, totalAttempts),
             lockedOut |-> lockedOut]

\* a variant that does not write the lockout flag
StoredRecord_OmitsLockedOut(date, puzzle, g, a, total, locked) ==
    [t |-> "object",
     date |-> Str(date),
     startWord |-> Str(puzzle.startWord),
     guesses |-> Arr([i \in 1..Len(g) |-> Str(g[i])]),
     attemptsByStep |->
        Arr([i \in 1..Len(a) |-> Arr([j \in 1..Len(a[i]) |-> Str(a[i][j].guess)])]),
     attempts |-> Undef,
     activeStep |-> Undef,
     totalAttempts |-> Num(total),
     lockedOut |-> Undef,
     failed |-> Undef]

\* a variant that writes the attempts as objects, not as their words
StoredRecord_WholeAttempts(date, puzzle, g, a, total, locked) ==
    [t |-> "object",
     date |-> Str(date),
     startWord |-> Str(puzzle.startWord),
     guesses |-> Arr([i \in 1..Len(g) |-> Str(g[i])]),
     attemptsByStep |->
        Arr([i \in 1..Len(a) |-> Arr([j \in 1..Len(a[i]) |-> [t |-> "object"]])]),
     attempts |-> Undef,
     activeStep |-> Undef,
     totalAttempts |-> Num(total),
     lockedOut |-> Bool(locked),
     failed |-> Undef]

\* the record the save effect writes: JSON.stringify of the state, read back by JSON.parse
StoredRecord(date, puzzle, g, a, total, locked) ==
    [t |-> "object",
     date |-> Str(date),
     startWord |-> Str(puzzle.startWord),
     guesses |-> Arr([i \in 1..Len(g) |-> Str(g[i])]),
     attemptsByStep |->
        Arr([i \in 1..Len(a) |-> Arr([j \in 1..Len(a[i]) |-> Str(a[i][j].guess)])]),
     attempts |-> Undef,
     activeStep |-> Undef,
     totalAttempts |-> Num(total),
     lockedOut |-> Bool(locked),
     failed |-> Undef]

----------------------------------------------------------------------------
(* The App component: what a render derives from the state *)

puzzle == PuzzleFor(currentDate)

currentStep == Len(guesses)

isComplete == IF puzzle # NoPuzzle THEN currentStep >= Len(TARGET_LENGTHS) ELSE FALSE

expectedLength ==
    IF puzzle = NoPuzzle \/ isComplete THEN 0 ELSE TARGET_LENGTHS[currentStep + 1]

targetWord ==
    IF puzzle = NoPuzzle \/ isComplete THEN <<>> ELSE puzzle.targetWords[currentStep + 1]

\* a variant that reports the length of the stage being played
finalScoreLength_CurrentStage == expectedLength

finalScoreLength == IF Len(guesses) # 0 THEN Len(guesses[Len(guesses)]) ELSE 7

isInputLocked == puzzle = NoPuzzle \/ isComplete \/ isLockedOut

\* the states of section 4.4 of the specification
Solved == isComplete
LockedOut == ~isComplete /\ isLockedOut
Active(stage) == puzzle # NoPuzzle /\ ~isComplete /\ ~isLockedOut /\ currentStep = stage

SessionKind ==
    IF puzzle = NoPuzzle THEN "no-puzzle"
    ELSE IF Solved THEN "solved"
    ELSE IF LockedOut THEN "locked-out"
    ELSE "active"

\* an event of the history: its type and, for a rollover, the kind of session
\* it found
Event(type, found) == [type |-> type, found |-> found]

----------------------------------------------------------------------------
(* showToast and the messages *)

NoToast == [kind |-> "none", n |-> 0]
\* `No puzzle found for ${currentDate}. Run generate:puzzles.`
NoPuzzleToast == [kind |-> "no-puzzle", n |-> 0]
\* 'Puzzle already solved. Come back tomorrow.'
AlreadySolvedToast == [kind |-> "already-solved", n |-> 0]
\* `Locked until tomorrow. Final score: ${n}-letter word.`
LockedToast(n) == [kind |-> "locked", n |-> n]
\* `Enter a ${n}-letter word.`
WrongLengthToast(n) == [kind |-> "wrong-length", n |-> n]
\* `Not quite. ${n} attempts left.`
AttemptsLeftToast(n) == [kind |-> "attempts-left", n |-> n]

----------------------------------------------------------------------------
(* submitGuess and handleGameKey *)

\* what a handler leaves: the state it set, and the toast it showed
Outcome(g, a, total, locked, input, toast) ==
    [guesses |-> g, attemptsByStep |-> a, totalAttemptsUsed |-> total,
     isLockedOut |-> locked, inputValue |-> input, toast |-> toast]

\* a handler that returns without setting anything
Untouched(toast) ==
    Outcome(guesses, attemptsByStep, totalAttemptsUsed, isLockedOut, inputValue, toast)

\* a variant that clears the input when it rejects the length
WrongLengthOutcome_ClearsInput ==
    Outcome(guesses, attemptsByStep, totalAttemptsUsed, isLockedOut, <<>>,
            WrongLengthToast(expectedLength))

\* the guess has the wrong length: a toast, and nothing is set
WrongLengthOutcome == Untouched(WrongLengthToast(expectedLength))

\* a variant that also empties the attempts recorded for the stage just solved
CorrectGuessOutcome_ClearsStageAttempts(guess) ==
    Outcome(Append(guesses, guess),
            [attemptsByStep EXCEPT ![currentStep + 1] = <<>>],
            totalAttemptsUsed, isLockedOut, <<>>, NoToast)

\* a variant that sets guesses to the new word alone
CorrectGuessOutcome_ReplacesGuesses(guess) ==
    Outcome(<<guess>>, attemptsByStep, totalAttemptsUsed, isLockedOut, <<>>, NoToast)

\* the guess is the target: it joins guesses, and the input is cleared
CorrectGuessOutcome(guess) ==
    Outcome(Append(guesses, guess), attemptsByStep, totalAttemptsUsed, isLockedOut,
            <<>>, NoToast)

\* a variant that locks out on the attempts of the current stage alone
WrongGuessOutcome_PerStageBudget(guess) ==
    LET nextTotalAttempts == Min(MAX_RETRIES, totalAttemptsUsed + 1)
        next == [attemptsByStep EXCEPT ![currentStep + 1] =
                    Append(@, [guess |-> guess,
                               feedback |-> buildFeedback(guess, targetWord)])]
    IN IF Len(next[currentStep + 1]) >= MAX_RETRIES
       THEN Outcome(guesses, next, nextTotalAttempts, TRUE, <<>>,
                    LockedToast(finalScoreLength))
       ELSE Outcome(guesses, next, nextTotalAttempts, isLockedOut, <<>>,
                    AttemptsLeftToast(MAX_RETRIES - nextTotalAttempts))

\* the guess is wrong: it is recorded with its feedback, and counted
WrongGuessOutcome(guess) ==
    LET nextTotalAttempts == Min(MAX_RETRIES, totalAttemptsUsed + 1)
        next == [attemptsByStep EXCEPT ![currentStep + 1] =
                    Append(@, [guess |-> guess,
                               feedback |-> buildFeedback(guess, targetWord)])]
    IN IF nextTotalAttempts >= MAX_RETRIES
       THEN Outcome(guesses, next, nextTotalAttempts, TRUE, <<>>,
                    LockedToast(finalScoreLength))
       ELSE Outcome(guesses, next, nextTotalAttempts, isLockedOut, <<>>,
                    AttemptsLeftToast(MAX_RETRIES - nextTotalAttempts))

submitGuess ==
    IF puzzle = NoPuzzle THEN Untouched(NoPuzzleToast)
    ELSE IF isComplete THEN Untouched(AlreadySolvedToast)
    ELSE IF isLockedOut THEN Untouched(LockedToast(finalScoreLength))
    ELSE LET guess == ToUpperCase(Trim(inputValue)) IN
    IF Len(guess) # expectedLength THEN WrongLengthOutcome
    ELSE IF guess = targetWord THEN CorrectGuessOutcome(guess)
    ELSE WrongGuessOutcome(guess)

\* a variant that still takes a letter when the buffer has the expected length
handleGameKey_TakesOneMore(key) ==
    IF isInputLocked THEN Untouched(NoToast)
    ELSE IF key = "ENTER" THEN submitGuess
    ELSE IF key = "BACKSPACE"
    THEN Outcome(guesses, attemptsByStep, totalAttemptsUsed, isLockedOut,
                 SubSeq(inputValue, 1, Len(inputValue) - 1), NoToast)
    ELSE IF ~(\E j \in 1..Len(UpperCase) : UpperCase[j] = key) THEN Untouched(NoToast)
    ELSE IF Len(inputValue) > expectedLength THEN Untouched(NoToast)
    ELSE Outcome(guesses, attemptsByStep, totalAttemptsUsed, isLockedOut,
                 Append(inputValue, key), NoToast)


handleGameKey(key) ==
    IF isInputLocked THEN Untouched(NoToast)
    ELSE IF key = "ENTER" THEN submitGuess
    ELSE IF key = "BACKSPACE"
    THEN Outcome(guesses, attemptsByStep, totalAttemptsUsed, isLockedOut,
                 SubSeq(inputValue, 1, Len(inputValue) - 1), NoToast)
    ELSE IF ~(\E j \in 1..Len(UpperCase) : UpperCase[j] = key) THEN Untouched(NoToast)
    ELSE IF Len(inputValue) >= expectedLength THEN Untouched(NoToast)
    ELSE Outcome(guesses, attemptsByStep, totalAttemptsUsed, isLockedOut,
                 Append(inputValue, key), NoToast)

----------------------------------------------------------------------------
(* The effects *)

NoUpdate == [t |-> "none"]

\* a variant with the save effect declared before the load effect
EffectsOfCommit_SaveFirst(dateChanged, sessionChanged) ==
    (IF dateChanged \/ sessionChanged THEN <<"save">> ELSE <<>>) \o
    (IF dateChanged THEN <<"load">> ELSE <<>>)

\* the effects a commit leaves to run, in the order the component declares them:
\* the load effect depends on currentDate and puzzle, the save effect on those and
\* on guesses, attemptsByStep, totalAttemptsUsed and isLockedOut
EffectsOfCommit(dateChanged, sessionChanged) ==
    (IF dateChanged THEN <<"load">> ELSE <<>>) \o
    (IF dateChanged \/ sessionChanged THEN <<"save">> ELSE <<>>)

\* the effects of the first render: every effect runs
EffectsOfMount == EffectsOfCommit(TRUE, TRUE)

\* what the load effect passes to the setters
LoadEffectUpdate ==
    LET loaded == IF puzzle # NoPuzzle
                  THEN loadStoredState(currentDate, puzzle, storage)
                  ELSE createEmptyState
    IN [t |-> "update", state |-> loaded]

\* what the save effect leaves in the slot
SaveEffectStorage ==
    IF puzzle = NoPuzzle THEN NoItem
    ELSE Item(StoredRecord(currentDate, puzzle, guesses, attemptsByStep,
                           totalAttemptsUsed, isLockedOut))

Settled == effects = <<>> /\ queued = NoUpdate

----------------------------------------------------------------------------
(* The environment: what the player types, and what the slot holds at first *)

\* the words the player types, letter by letter
TypedWords ==
    { <<"P","L","A","N","E","T">>, <<"P","L","A","N","E">>,
      <<"P","L","A","N">>, <<"P","A","N">>,
      <<"S","T","R","I","N","G">>, <<"S","T","I","N","G">>, <<"S","I","N","G">>,
      <<"S","I","N">> }

Letters == UNION { {w[i] : i \in 1..Len(w)} : w \in TypedWords }

IsPrefix(s, w) == Len(s) <= Len(w) /\ SubSeq(w, 1, Len(s)) = s

\* the letter keys the player presses: the next letter of a word of TypedWords, or
\* any letter when the key is ignored
CanType(key) ==
    \/ isInputLocked
    \/ Len(inputValue) >= expectedLength
    \/ \E w \in TypedWords : IsPrefix(Append(inputValue, key), w)

NoProbe == [fn |-> "none"]

\* a stored object with every field given
StoredObject(date, startWord, g, byStep, attempts, activeStep, total, locked, failed) ==
    [t |-> "object", date |-> date, startWord |-> startWord, guesses |-> g,
     attemptsByStep |-> byStep, attempts |-> attempts, activeStep |-> activeStep,
     totalAttempts |-> total, lockedOut |-> locked, failed |-> failed]

FirstPuzzle == PuzzleFor(getLocalDateString(1))
SecondPuzzle == PuzzleFor(getLocalDateString(2))

\* stored guesses: none, the first target with blanks and in lower case, all four
\* targets, and a list whose second entry is wrong and whose third is right
StoredGuessesChoices ==
    LET T == FirstPuzzle.targetWords
    IN { Arr(<<>>),
         Arr(<< Str(<<" ","p","l","a","n","e","t">>) >>),
         Arr(<< Str(T[1]), Str(T[2]), Str(T[3]), Str(T[4]) >>),
         Arr(<< Str(T[1]), Str(T[3]), Str(T[3]), Str(T[4]) >>) }

\* stored attempts, as <<attemptsByStep, attempts, activeStep>>: none; one wrong
\* word; lists with the target, a word of the wrong length, a lower-case word and
\* more than MAX_RETRIES words in them; the legacy shape
StoredAttemptsChoices ==
    LET T == FirstPuzzle.targetWords
        U == SecondPuzzle.targetWords
        PLATEN == <<"P","L","A","T","E","N">>
    IN { <<Undef, Undef, Undef>>,
         <<Arr(<< Arr(<< Str(PLATEN) >>), Arr(<<>>), Arr(<<>>), Arr(<<>>) >>), Undef, Undef>>,
         <<Arr(<< Arr(<< Str(T[1]), Str(U[2]), Str(PLATEN) >>),
                  Null,
                  Arr(<< Num(4), Str(<<"s","i","n","g"," ">>), Str(U[3]), Str(T[3]) >>),
                  Arr(<< Str(U[4]) >>) >>), Undef, Undef>>,
         <<Undef, Arr(<< Str(U[2]), Str(T[2]), Str(T[1]) >>), Num(1)>> }

StoredTotalChoices == { Undef, Num(2), Num(7), Frac(1) }

StoredLockedChoices == { <<Undef, Undef>>, <<Bool(TRUE), Undef>>, <<Bool(FALSE), Num(1)>> }

\* stored date and start word: those of the first puzzle, another date, another word
StoredHeadChoices ==
    { <<Str(FirstPuzzle.date), Str(FirstPuzzle.startWord)>>,
      <<Str(SecondPuzzle.date), Str(FirstPuzzle.startWord)>>,
      <<Str(FirstPuzzle.date), Str(SecondPuzzle.startWord)>> }

\* what the slot may hold when the page is first opened
InitialStorage ==
    { NoItem, Item(SyntaxError), Item(Null), Item(Arr(<<>>)) } \cup
    { Item(StoredObject(h[1], h[2], g, a[1], a[2], a[3], total, l[1], l[2])) :
        h \in StoredHeadChoices, g \in StoredGuessesChoices, a \in StoredAttemptsChoices,
        total \in StoredTotalChoices, l \in StoredLockedChoices }

----------------------------------------------------------------------------
(* The state machine *)

\* the first render of a page opened on the given day with the given slot
Mount(day, raw) ==
    LET today == getLocalDateString(day)
        todayPuzzle == PuzzleFor(today)
        initialStoredState == IF todayPuzzle # NoPuzzle
                              THEN loadStoredState(today, todayPuzzle, raw)
                              ELSE createEmptyState
    IN /\ currentDate' = today
       /\ guesses' = initialStoredState.guesses
       /\ attemptsByStep' = initialStoredState.attemptsByStep
       /\ totalAttemptsUsed' = initialStoredState.totalAttempts
       /\ isLockedOut' = initialStoredState.lockedOut
       /\ inputValue' = <<>>
       /\ lastToast' = NoToast
       /\ effects' = EffectsOfMount
       /\ queued' = NoUpdate

InitWith(raw, harness) ==
    LET today == getLocalDateString(1)
        todayPuzzle == PuzzleFor(today)
        initialStoredState == IF todayPuzzle # NoPuzzle
                              THEN loadStoredState(today, todayPuzzle, raw)
                              ELSE createEmptyState
    IN /\ clock = 1
       /\ storage = raw
       /\ currentDate = today
       /\ guesses = initialStoredState.guesses
       /\ attemptsByStep = initialStoredState.attemptsByStep
       /\ totalAttemptsUsed = initialStoredState.totalAttempts
       /\ isLockedOut = initialStoredState.lockedOut
       /\ inputValue = <<>>
       /\ lastToast = NoToast
       /\ effects = EffectsOfMount
       /\ queued = NoUpdate
       /\ lastEvent = Event("mount", "-")
       /\ wrongCount = 0
       /\ probe = harness

\* the page is opened with whatever the slot holds
Init == \E raw \in InitialStorage : InitWith(raw, NoProbe)

\* the page is opened for the first time: the slot is empty
InitFresh == InitWith(NoItem, NoProbe)

\* the submission the ENTER key makes is a wrong guess
IsWrongGuess ==
    /\ ~isInputLocked
    /\ Len(inputValue) = expectedLength
    /\ inputValue # targetWord

\* a key event reaches handleGameKey
KeyDown(key) ==
    /\ Settled
    /\ key \in Letters => CanType(key)
    /\ LET o == handleGameKey(key)
       IN /\ guesses' = o.guesses
          /\ attemptsByStep' = o.attemptsByStep
          /\ totalAttemptsUsed' = o.totalAttemptsUsed
          /\ isLockedOut' = o.isLockedOut
          /\ inputValue' = o.inputValue
          /\ lastToast' = o.toast
          /\ effects' = EffectsOfCommit(FALSE,
                            <<o.guesses, o.attemptsByStep, o.totalAttemptsUsed,
                              o.isLockedOut>> # session)
    /\ wrongCount' = IF key = "ENTER" /\ IsWrongGuess
                     THEN Min(MAX_RETRIES + 1, wrongCount + 1)
                     ELSE wrongCount
    /\ lastEvent' = Event("key", "-")
    /\ UNCHANGED <<clock, storage, currentDate, queued, probe>>

\* a variant that takes every check for a change of date
DateHasChanged_Always == TRUE

\* latestDate !== currentDate
DateHasChanged == getLocalDateString(clock) # currentDate

\* syncDate, called by the interval timer or by the window's focus event
SyncDate(trigger) ==
    /\ Settled
    /\ LET latestDate == getLocalDateString(clock)
       IN IF DateHasChanged
          THEN /\ storage' = NoItem
               /\ currentDate' = latestDate
               /\ effects' = EffectsOfCommit(TRUE, FALSE)
               /\ wrongCount' = 0
               /\ lastToast' = NoToast
               /\ lastEvent' = Event("rollover", SessionKind)
          ELSE UNCHANGED <<storage, currentDate, effects, wrongCount, lastToast, lastEvent>>
    /\ UNCHANGED <<clock, guesses, attemptsByStep, totalAttemptsUsed, isLockedOut,
                   inputValue, queued, probe>>

\* the load effect runs
RunLoadEffect ==
    /\ effects # <<>> /\ Head(effects) = "load"
    /\ queued' = LoadEffectUpdate
    /\ effects' = Tail(effects)
    /\ UNCHANGED <<clock, storage, currentDate, guesses, attemptsByStep,
                   totalAttemptsUsed, isLockedOut, inputValue, lastToast, lastEvent,
                   wrongCount, probe>>

\* the save effect runs
RunSaveEffect ==
    /\ effects # <<>> /\ Head(effects) = "save"
    /\ storage' = SaveEffectStorage
    /\ effects' = Tail(effects)
    /\ UNCHANGED <<clock, currentDate, guesses, attemptsByStep, totalAttemptsUsed,
                   isLockedOut, inputValue, lastToast, queued, lastEvent, wrongCount,
                   probe>>

\* the render of the updates the load effect queued; the setters were given new
\* arrays, so the save effect runs again
Render ==
    /\ effects = <<>> /\ queued # NoUpdate
    /\ guesses' = queued.state.guesses
    /\ attemptsByStep' = queued.state.attemptsByStep
    /\ totalAttemptsUsed' = queued.state.totalAttempts
    /\ isLockedOut' = queued.state.lockedOut
    /\ inputValue' = <<>>
    /\ effects' = EffectsOfCommit(FALSE, TRUE)
    /\ queued' = NoUpdate
    /\ UNCHANGED <<clock, storage, currentDate, lastToast, lastEvent, wrongCount, probe>>

\* the page is closed and opened again
Reload ==
    /\ Settled
    /\ Mount(clock, storage)
    /\ wrongCount' = IF getLocalDateString(clock) = currentDate THEN wrongCount ELSE 0
    /\ lastEvent' = Event("mount", "-")
    /\ UNCHANGED <<clock, storage, probe>>

\* midnight passes
Tick ==
    /\ Settled
    /\ clock < MaxDay
    /\ clock' = clock + 1
    /\ UNCHANGED <<storage, currentDate, guesses, attemptsByStep, totalAttemptsUsed,
                   isLockedOut, inputValue, lastToast, effects, queued, lastEvent,
                   wrongCount, probe>>

Keys == {"ENTER", "BACKSPACE"} \cup Letters

Next ==
    \/ \E key \in Keys : KeyDown(key)
    \/ \E trigger \in {"interval", "focus"} : SyncDate(trigger)
    \/ RunLoadEffect
    \/ RunSaveEffect
    \/ Render
    \/ Reload
    \/ Tick

Spec == Init /\ [][Next]_vars

SpecFresh == InitFresh /\ [][Next]_vars

----------------------------------------------------------------------------
(* The harness of buildFeedback: every pair of words of equal length *)

FeedbackLetters == {"A", "B", "C"}

FeedbackWords(n) == [1..n -> FeedbackLetters]

InitFeedback ==
    \E n \in 1..MaxWordLen : \E g \in FeedbackWords(n) : \E w \in FeedbackWords(n) :
        InitWith(NoItem, [fn |-> "buildFeedback", guess |-> g, target |-> w,
                          states |-> <<>>, done |-> FALSE])

ApplyBuildFeedback ==
    /\ probe.fn = "buildFeedback" /\ ~probe.done
    /\ probe' = [probe EXCEPT !.states = buildFeedback(probe.guess, probe.target),
                              !.done = TRUE]
    /\ UNCHANGED <<clock, storage, currentDate, guesses, attemptsByStep,
                   totalAttemptsUsed, isLockedOut, inputValue, lastToast, effects,
                   queued, lastEvent, wrongCount>>

NextFeedback == ApplyBuildFeedback

SpecFeedback == InitFeedback /\ [][NextFeedback]_vars

----------------------------------------------------------------------------
(* Properties *)

\* the number of Attempt entries over the four stages
AttemptCount ==
    Len(attemptsByStep[1]) + Len(attemptsByStep[2]) + Len(attemptsByStep[3])
        + Len(attemptsByStep[4])

\* the session is the empty state
SessionIsEmpty ==
    /\ guesses = <<>>
    /\ attemptsByStep = <<<<>>, <<>>, <<>>, <<>>>>
    /\ totalAttemptsUsed = 0
    /\ isLockedOut = FALSE

\* the state a rollover has left is still on screen: syncDate has set the new
\* date, and the load effect's updates are not rendered yet
RolloverPending == lastEvent.type = "rollover" /\ ~Settled

\* C1: played from the empty state, the session is LockedOut exactly when 3
\* wrong guesses have been made under the active date, whatever stages they
\* were made at, and never more than 3 are made.
C1_GlobalRetryBudget ==
    ~RolloverPending =>
        /\ wrongCount <= MAX_RETRIES
        /\ LockedOut <=> (wrongCount = MAX_RETRIES)

\* C1 witness: locked out in the middle of the third stage by one wrong guess at
\* each of the first three stages
C1_Witness ==
    /\ LockedOut /\ wrongCount = 3 /\ currentStep = 2
    /\ Len(attemptsByStep[1]) = 1 /\ Len(attemptsByStep[2]) = 1
    /\ Len(attemptsByStep[3]) = 1

\* the signal section 4.4 gives a commit that is rejected
RejectionSignal ==
    IF puzzle = NoPuzzle THEN NoPuzzleToast
    ELSE IF isComplete THEN AlreadySolvedToast
    ELSE LockedToast(IF guesses = <<>> THEN 7 ELSE Len(guesses[Len(guesses)]))

\* C2: an ENTER received while the session is Solved or LockedOut, or while no
\* puzzle is loaded, shows the matching signal (already solved, locked out with
\* the final score, no puzzle) and changes nothing of the session.
C2_CommitRejectedWithSignal ==
    [][(KeyDown("ENTER") /\ (puzzle = NoPuzzle \/ Solved \/ LockedOut))
        => (lastToast' = RejectionSignal /\ UNCHANGED session)]_vars

\* C3: from the empty state with no wrong guess made, a correct guess at stage s
\* leads from Active(s) to Active(s+1), or to Solved from stage 3, with guesses
\* the first s+1 targets, no attempt recorded, no retry used and no lockout.
C3_SolveInOrder ==
    [][(KeyDown("ENTER") /\ wrongCount = 0 /\ ~isInputLocked /\ inputValue = targetWord)
        => /\ Active(currentStep)
           /\ guesses' = SubSeq(puzzle.targetWords, 1, currentStep + 1)
           /\ attemptsByStep' = <<<<>>, <<>>, <<>>, <<>>>>
           /\ totalAttemptsUsed' = 0
           /\ isLockedOut' = FALSE
           /\ IF currentStep = 3
              THEN Solved'
              ELSE /\ (\E stage \in 0..3 : Active(stage))'
                   /\ currentStep' = currentStep + 1]_vars

\* C3 witness: solved by four correct guesses and nothing else
C3_Witness ==
    /\ Solved /\ wrongCount = 0 /\ lastEvent.type = "key"
    /\ guesses = puzzle.targetWords
    /\ AttemptCount = 0 /\ totalAttemptsUsed = 0 /\ ~isLockedOut

\* C4: a page reloaded on the same date restores, from what the save effect
\* wrote, the session it had: the same guesses, the same attempts in the same
\* order with the same feedback, the same total and the same lockout flag; and
\* the load effect of the new page renders that session again.
C4_SaveRestoreIdentity ==
    [][((Reload /\ getLocalDateString(clock) = currentDate)
            \/ (Render /\ lastEvent.type = "mount"))
        => UNCHANGED session]_vars

\* C4 witness: a page just reloaded with two stages solved and two attempts
C4_Witness ==
    /\ lastEvent.type = "mount" /\ effects = EffectsOfMount
    /\ Len(guesses) = 2 /\ totalAttemptsUsed = 2 /\ AttemptCount = 2

\* the slot holds an object whose date or start word is not the active one
StoredForAnotherPuzzle ==
    /\ storage.t = "item"
    /\ storage.json.t = "object"
    /\ \/ storage.json.date.t # "string"
       \/ storage.json.date.v # currentDate
       \/ storage.json.startWord.t # "string"
       \/ storage.json.startWord.v # puzzle.startWord

\* the page has just been opened: no effect of the mount has run
JustMounted == lastEvent.type = "mount" /\ effects = EffectsOfMount /\ queued = NoUpdate

\* C5: a page opened over a stored record of another date or another start
\* word starts from the empty state, whatever else the record holds.
C5_MismatchRestoresEmpty ==
    (JustMounted /\ puzzle # NoPuzzle /\ StoredForAnotherPuzzle) => SessionIsEmpty

\* C5 witness: opened over a record of the active date whose start word is
\* another puzzle's and whose guesses are the four targets
C5_Witness ==
    /\ JustMounted /\ puzzle # NoPuzzle /\ StoredForAnotherPuzzle
    /\ storage.json.date = Str(currentDate)
    /\ storage.json.guesses.t = "array"
    /\ Len(storage.json.guesses.v) = 4
    /\ \A i \in 1..4 : storage.json.guesses.v[i] = Str(puzzle.targetWords[i])
    /\ SessionIsEmpty

\* C6: once the effects of a rollover have settled, the session is the empty
\* state, and the slot holds the empty state of the new date's puzzle, or
\* nothing if the new date has no puzzle.
C6_RolloverResets ==
    (lastEvent.type = "rollover" /\ Settled) =>
        /\ SessionIsEmpty
        /\ inputValue = <<>>
        /\ storage =
            IF puzzle = NoPuzzle THEN NoItem
            ELSE Item([t |-> "object",
                       date |-> Str(currentDate),
                       startWord |-> Str(puzzle.startWord),
                       guesses |-> Arr(<<>>),
                       attemptsByStep |-> Arr(<<Arr(<<>>), Arr(<<>>), Arr(<<>>), Arr(<<>>)>>),
                       attempts |-> Undef,
                       activeStep |-> Undef,
                       totalAttempts |-> Num(0),
                       lockedOut |-> Bool(FALSE),
                       failed |-> Undef])

\* C6 witness: a rollover that found the session locked out has settled on a date
\* with a puzzle
C6_Witness ==
    /\ lastEvent = Event("rollover", "locked-out") /\ Settled /\ puzzle # NoPuzzle

\* the positions of word w that hold the letter
Occurrences(w, letter) == {i \in 1..Len(w) : w[i] = letter}

\* C7: buildFeedback marks a position correct exactly when the letters agree,
\* marks no more positions of a letter present or correct than the target has
\* of that letter, and marks a guess equal to the target all correct.
C7_FeedbackSound ==
    (probe.fn = "buildFeedback" /\ probe.done) =>
        LET g == probe.guess
            w == probe.target
            states == probe.states
        IN /\ Len(states) = Len(w)
           /\ \A i \in 1..Len(w) : states[i] \in {"correct", "present", "absent"}
           /\ \A i \in 1..Len(w) : (states[i] = "correct") <=> (g[i] = w[i])
           /\ \A letter \in FeedbackLetters :
                Cardinality({i \in Occurrences(g, letter) :
                                states[i] \in {"present", "correct"}})
                    <= Cardinality(Occurrences(w, letter))
           /\ (g = w) => \A i \in 1..Len(w) : states[i] = "correct"

\* C7 witness: a letter twice in the guess and once in the target, elsewhere: the
\* first is present and the second absent
C7_Witness ==
    /\ probe.fn = "buildFeedback" /\ probe.done
    /\ probe.guess = <<"A", "A", "B">>
    /\ probe.target = <<"B", "C", "A">>
    /\ probe.states = <<"present", "absent", "present">>

\* C8: a locked-out signal reports the length of the last solved word, or 7
\* when no stage is solved.
C8_LockedSignalScore ==
    lastToast.kind = "locked" =>
        lastToast.n = IF guesses = <<>> THEN 7 ELSE Len(guesses[Len(guesses)])

\* C8 witness: locked out with two stages solved, the signal reporting 5
C8_Witness ==
    /\ lastToast = LockedToast(5) /\ Len(guesses) = 2 /\ LockedOut

\* C9: an ENTER in an Active state with a buffer of another length than the
\* stage requires shows the wrong-length signal and changes neither the
\* session nor the buffer.
C9_WrongLengthRejected ==
    [][(KeyDown("ENTER") /\ ~isInputLocked
            /\ Len(inputValue) # TARGET_LENGTHS[currentStep + 1])
        => /\ lastToast' = WrongLengthToast(TARGET_LENGTHS[currentStep + 1])
           /\ UNCHANGED <<session, inputValue>>]_vars

\* C9 witness: the wrong-length signal shown over a buffer of four letters at the
\* second stage
C9_Witness ==
    /\ lastToast = WrongLengthToast(5) /\ Len(inputValue) = 4 /\ Active(1)

C11_LockedIffBudgetSpent ==
    isLockedOut <=> (totalAttemptsUsed = MAX_RETRIES /\ Len(guesses) < Len(TARGET_LENGTHS))

\* C11: isLockedOut holds whenever totalAttemptsUsed is 3 and fewer than four
\* stages are solved, and never holds once the four stages are solved; a page
\* opens locked out below 3 attempts only over a record whose lockedOut or failed
\* flag is truthy.
C11_LockedWhenBudgetSpent ==
    /\ (totalAttemptsUsed = MAX_RETRIES /\ Len(guesses) < Len(TARGET_LENGTHS)) => isLockedOut
    /\ isLockedOut => Len(guesses) < Len(TARGET_LENGTHS)
    /\ (JustMounted /\ isLockedOut /\ totalAttemptsUsed < MAX_RETRIES) =>
           /\ storage.t = "item" /\ storage.json.t = "object"
           /\ Truthy(storage.json.lockedOut) \/ Truthy(storage.json.failed)

\* C11 witness: a page opened over a record of the active puzzle with the four
\* targets as guesses, a truthy lockedOut flag and a count above 3: the count is
\* restored as 3 and the lockout is false
C11_Witness ==
    /\ JustMounted /\ puzzle # NoPuzzle /\ ~StoredForAnotherPuzzle
    /\ storage.t = "item" /\ storage.json.t = "object"
    /\ Truthy(storage.json.lockedOut)
    /\ Len(guesses) = Len(TARGET_LENGTHS)
    /\ totalAttemptsUsed = MAX_RETRIES
    /\ ~isLockedOut

RestoredFromRecord ==
    /\ JustMounted /\ puzzle # NoPuzzle /\ storage.t = "item"
    /\ storage.json.t = "object" /\ ~StoredForAnotherPuzzle
    /\ IsArray(storage.json.guesses)

\* C13: after a restore, totalAttemptsUsed is min(3, max(c, stored totalAttempts))
\* when the stored totalAttempts is an integer, and c otherwise, c being the
\* number of attempts rebuilt; it is never below c and never above 3.
C13_TotalReconciled ==
    RestoredFromRecord =>
        LET stored == storage.json.totalAttempts
            c == AttemptCount
        IN /\ totalAttemptsUsed =
                 IF stored.t = "number" /\ stored.whole
                 THEN IF c >= MAX_RETRIES \/ stored.v >= MAX_RETRIES THEN MAX_RETRIES
                      ELSE IF stored.v >= c THEN stored.v ELSE c
                 ELSE c
           /\ c <= totalAttemptsUsed
           /\ totalAttemptsUsed <= MAX_RETRIES

\* C13 witness: opened over a stored counter of 2 and stored lists from which 3
\* attempts are rebuilt: the total is 3
C13_Witness ==
    /\ RestoredFromRecord
    /\ storage.json.totalAttempts = Num(2)
    /\ AttemptCount = 3
    /\ totalAttemptsUsed = 3

\* C14: after a restore from a record of the active date and start word,
\* isLockedOut is false if the four stages are solved, and otherwise holds
\* exactly when the stored lockedOut or failed flag is truthy or the restored
\* total has reached 3.
C14_LockoutRecomputed ==
    RestoredFromRecord =>
        (isLockedOut <=>
            /\ Len(guesses) < Len(TARGET_LENGTHS)
            /\ \/ Truthy(storage.json.lockedOut)
               \/ Truthy(storage.json.failed)
               \/ totalAttemptsUsed >= MAX_RETRIES)

\* C14 witness: opened over a record with lockedOut false, the legacy failed flag
\* 1, one stage solved and fewer than 3 attempts: the session is locked out
C14_Witness ==
    /\ RestoredFromRecord
    /\ storage.json.lockedOut = Bool(FALSE)
    /\ storage.json.failed = Num(1)
    /\ Len(guesses) = 1
    /\ totalAttemptsUsed < MAX_RETRIES
    /\ isLockedOut

\* C15: an ENTER over the target of the current stage appends it to guesses and
\* clears the buffer, and leaves the attempts of every stage, totalAttemptsUsed
\* and isLockedOut as they were.
C15_CorrectGuessFrame ==
    [][(KeyDown("ENTER") /\ ~isInputLocked /\ inputValue = targetWord)
        => /\ guesses' = Append(guesses, inputValue)
           /\ inputValue' = <<>>
           /\ UNCHANGED <<attemptsByStep, totalAttemptsUsed, isLockedOut>>]_vars

\* C15 witness: the second stage has just been solved after a wrong guess at it,
\* and the wrong attempt is still recorded for it
C15_Witness ==
    /\ lastEvent.type = "key" /\ lastToast = NoToast /\ effects = <<"save">>
    /\ Len(guesses) = 2 /\ inputValue = <<>>
    /\ Len(attemptsByStep[2]) = 1 /\ totalAttemptsUsed = 1 /\ ~isLockedOut

\* C16: while the local date is the active date, no date check, of the timer or
\* of the focus event, can change the active date, the session, the buffer or
\* the slot; and on a settled page both checks can fire.
C16_SameDateCheckIsNoOp ==
    getLocalDateString(clock) = currentDate =>
        \A trigger \in {"interval", "focus"} :
            /\ Settled => ENABLED SyncDate(trigger)
            /\ ~ENABLED (SyncDate(trigger)
                           /\ ~UNCHANGED <<currentDate, session, inputValue, storage>>)

\* C16 witness: a settled page on its own date with a stage solved, a wrong
\* attempt, letters in the buffer and the session in the slot: the state a date
\* check fires in, and leaves as it is
C16_Witness ==
    /\ Settled /\ getLocalDateString(clock) = currentDate
    /\ ENABLED SyncDate("interval") /\ ENABLED SyncDate("focus")
    /\ Len(guesses) = 1 /\ AttemptCount = 1 /\ Len(inputValue) = 2
    /\ storage = Item(StoredRecord(currentDate, puzzle, guesses, attemptsByStep,
                                   totalAttemptsUsed, isLockedOut))

BufferFits == Len(inputValue) <= expectedLength

\* a key event of a letter or of BACKSPACE
EditKeyDown == \E key \in Letters \cup {"BACKSPACE"} : KeyDown(key)

\* what a step may do to the buffer
BufferStep ==
    /\ \A key \in Letters :
          (~isInputLocked /\ KeyDown(key)) =>
              inputValue' = IF Len(inputValue) < expectedLength
                            THEN Append(inputValue, key)
                            ELSE inputValue
    /\ (~isInputLocked /\ KeyDown("BACKSPACE")) =>
          inputValue' = SubSeq(inputValue, 1, Len(inputValue) - 1)
    /\ (isInputLocked /\ EditKeyDown) => inputValue' = inputValue
    /\ Len(guesses') > Len(guesses) => inputValue' = <<>>
    /\ (isLockedOut' /\ ~isLockedOut) => inputValue' = <<>>

StoredAttemptCount ==
    LET rows == storage.json.attemptsByStep.v
    IN Len(rows[1].v) + Len(rows[2].v) + Len(rows[3].v) + Len(rows[4].v)

\* C19: a record in the slot is of one day: it carries the start word of the
\* puzzle of its date, its guesses are leading targets of that puzzle, and when
\* its date is the active date its attempts, its totalAttempts and its lockedOut
\* flag are no more than the wrong guesses made under that date account for.
C19_RecordNeverMixesDays ==
    storage.t = "item" =>
        LET record == storage.json
            recordPuzzle == PuzzleFor(record.date.v)
        IN /\ recordPuzzle # NoPuzzle
           /\ record.startWord = Str(recordPuzzle.startWord)
           /\ Len(record.guesses.v) <= Len(TARGET_LENGTHS)
           /\ \A i \in 1..Len(record.guesses.v) :
                  record.guesses.v[i] = Str(recordPuzzle.targetWords[i])
           /\ record.date.v = currentDate =>
                  /\ StoredAttemptCount <= wrongCount
                  /\ record.totalAttempts.v <= wrongCount
                  /\ record.lockedOut.v => wrongCount >= MAX_RETRIES

\* C20: while the active date stays the same, no step out of a state that is not
\* in the window between a rollover and its render leaves LockedOut or Solved or
\* changes the guesses of such a state, and no such step lowers
\* totalAttemptsUsed; key events, effects and reloads are such steps.
C20_TerminalStatesAbsorbing ==
    [][(~RolloverPending /\ currentDate' = currentDate)
        => /\ LockedOut => (LockedOut' /\ guesses' = guesses)
           /\ Solved => (Solved' /\ guesses' = guesses)
           /\ totalAttemptsUsed' >= totalAttemptsUsed]_vars

\* C20 witness: a page reloaded on the date on which three wrong guesses locked
\* the session out after one solved stage: it is locked out still
C20_Witness ==
    /\ JustMounted /\ wrongCount = MAX_RETRIES
    /\ getLocalDateString(clock) = currentDate
    /\ LockedOut /\ Len(guesses) = 1 /\ totalAttemptsUsed = MAX_RETRIES

====
